---- MODULE Spec2Model ----
(***************************************************************************)
(* Model of the filesystem responder of websrv (src/fs.c): the request     *)
(* router fs_on_request, the file responder (on_file_request, on_file_read,*)
(* on_file_close) and the directory responder (on_dir_request, on_dir_read,*)
(* on_dir_close), driven by an HTTP layer (libmicrohttpd) that calls the   *)
(* request handler once per request and afterwards the read and close      *)
(* callbacks of the response it was given.                                 *)
(***************************************************************************)
EXTENDS Integers, Sequences, FiniteSets, TLC

(* ------------------------------ bounds --------------------------------- *)

\* requests the HTTP layer hands to fs_on_request
NumReq == 2
\* largest buffer size the HTTP layer offers on_file_read
MaxChunk == 2
\* how often other calls reuse the stack memory of a returned on_dir_request
MaxClobber == 1

(* ------------------------- program constants --------------------------- *)

PATH_MAX == 1024
NAME_MAX == 255
PAGE_SIZE == 4096
MIN_DIR_BUF == 512
MHD_HTTP_OK == 200
MHD_HTTP_MOVED_PERMANENTLY == 301
MHD_HTTP_NOT_FOUND == 404
MHD_SIZE_UNKNOWN == -1
MHD_CONTENT_READER_END_OF_STREAM == -1
MHD_CONTENT_READER_END_WITH_ERROR == -2
PREFIX_LEN == 3

PAGE_404 ==
  "<html><head><title>File not found</title></head><body>File not found</body></html>"

Req == 1..NumReq
NULL == 0

Min(a, b) == IF a < b THEN a ELSE b

RECURSIVE Rep(_, _)
Rep(c, n) ==
  IF n = 0 THEN ""
  ELSE LET h == Rep(c, n \div 2)
       IN  h \o h \o (IF n % 2 = 1 THEN c ELSE "")

(* ----------------------------- filesystem ------------------------------ *)

\* an entry name of the greatest length a directory entry can have
LongName == Rep("a", NAME_MAX)
\* an existing directory whose path is PATH_MAX - 4 characters long
LongDir ==
  "/" \o LongName \o "/" \o LongName \o "/" \o LongName \o "/"
      \o Rep("b", PATH_MAX - 4 - 3 * (NAME_MAX + 1) - 1)

\* what stat reports for a path: "reg", "dir", "other", or "none" (stat fails)
Kind(path) ==
  CASE path \in {"/", "/d", "/d/", LongDir} -> "dir"
    [] path = "/d/f" -> "reg"
    [] path = "/d/n" -> "other"
    [] OTHER -> "none"

\* the bytes of a regular file
Content(path) ==
  CASE path = "/d/f" -> "abc"
    [] OTHER -> ""

\* the entries of a directory, in enumeration order
DirEntries(path) ==
  CASE path = "/" -> <<".", "..", ".h", "d", LongName>>
    [] path = "/d/" -> <<"f", ".", "..", "n">>
    [] OTHER -> <<>>

DirPaths == {"/", "/d/"}

\* the request URLs the HTTP layer passes on: all begin with the /fs prefix
URLs == {"/fs", "/fs/d", "/fs/d/", "/fs/d/f", "/fs/d/n", "/fs/x",
         "/fs" \o LongDir}

(* --------------------------- the HTTP layer ---------------------------- *)

NoResp == [status |-> 0, hdrs |-> <<>>, kind |-> "none", size |-> 0, data |-> ""]

MHD_create_response_from_buffer(size, data) ==
  [status |-> 0, hdrs |-> <<>>, kind |-> "buffer", size |-> size, data |-> data]

MHD_create_response_from_callback(size, kind) ==
  [status |-> 0, hdrs |-> <<>>, kind |-> kind, size |-> size, data |-> ""]

MHD_add_response_header(resp, name, value) ==
  [resp EXCEPT !.hdrs = Append(@, <<name, value>>)]

MHD_queue_response(status, resp) == [resp EXCEPT !.status = status]

websrv_queue_response(status, resp) ==
  MHD_queue_response(status,
    MHD_add_response_header(resp, "Access-Control-Allow-Origin", "*"))

\* what the environment decides during one request: whether the file or
\* directory can still be opened, whether a response object can be allocated,
\* whether the response can be queued, and how a buffer overrun ends
Envs == [open : BOOLEAN, create : BOOLEAN, queue : BOOLEAN, crash : BOOLEAN]

(* ------------------------------- state --------------------------------- *)

VARIABLES
  pc,        \* per request: "idle", "stream", "ended", "done", "crashed"
  fault,     \* the process was brought down by undefined behaviour
  url,       \* per request: the URL given to fs_on_request
  route,     \* per request: the responder the router chose and its path argument
  obs,       \* per request: how the environment answered open, create and queue
  ret,       \* per request: what fs_on_request returned
  resp,      \* per request: the response queued on the connection
  fh,        \* per request: the FILE handle it opened: state and number of closes
  fbody,     \* per request: the file bytes handed to the HTTP layer so far
  fuse,      \* per request: on_file_read was called on a closed FILE handle
  dh,        \* per request: the DIR handle it opened: state, position, closes
  listing,   \* per request: the units on_dir_read emitted into its response
  sm,        \* the dir_read_sm_t in the stack frame of on_dir_request
  own,       \* per request: the dir_read_sm_t as its own calls left it
  foreign,   \* per request: a callback saw a dir_read_sm_t that was not its own
  endby,     \* per request: how its stream ended
  nClobber   \* how often the stack memory was reused so far

vars == <<pc, fault, url, route, obs, ret, resp, fh, fbody, fuse, dh, listing,
          sm, own, foreign, endby, nClobber>>

NoHandle == [state |-> "none", closes |-> 0]
NoDir == [state |-> "none", pos |-> 0, closes |-> 0, path |-> ""]
NoSm == [path |-> "", dir |-> NULL, state |-> 0]

(* --------------------------- file responder ---------------------------- *)

\* ReadChunk with the seek going to the start of the file instead of to pos
ReadChunkFromStart(content, pos, max) ==
  SubSeq(content, 1, Min(max, Len(content)))

\* fseek(file, pos, SEEK_SET) followed by fread(buf, 1, max, file)
ReadChunk(content, pos, max) ==
  SubSeq(content, pos + 1, Min(pos + max, Len(content)))

\* on_file_read without the ferror test: a read of 0 bytes is the end
on_file_read_noferror(content, pos, max, io) ==
  IF io = "seekfail"
  THEN [res |-> MHD_CONTENT_READER_END_WITH_ERROR, data |-> ""]
  ELSE LET data == IF io = "readerr" THEN "" ELSE ReadChunk(content, pos, max)
       IN  IF Len(data) = 0
           THEN [res |-> MHD_CONTENT_READER_END_OF_STREAM, data |-> ""]
           ELSE [res |-> Len(data), data |-> data]

\* on_file_read taking a read shorter than the buffer for the end of the file
on_file_read_short(content, pos, max, io) ==
  LET data == SubSeq(content, pos + 1, Min(pos + max, Len(content)))
  IN  IF io = "seekfail" \/ io = "readerr"
      THEN [res |-> MHD_CONTENT_READER_END_WITH_ERROR, data |-> ""]
      ELSE IF Len(data) < max
           THEN [res |-> MHD_CONTENT_READER_END_OF_STREAM, data |-> ""]
           ELSE [res |-> Len(data), data |-> data]

\* the result of one on_file_read call; io is what the I/O does:
\* "ok", "seekfail" (fseek fails) or "readerr" (fread yields 0 and sets the
\* error flag)
on_file_read(content, pos, max, io) ==
  IF io = "seekfail"
  THEN [res |-> MHD_CONTENT_READER_END_WITH_ERROR, data |-> ""]
  ELSE LET data == IF io = "readerr" THEN "" ELSE ReadChunk(content, pos, max)
       IN  IF Len(data) = 0
           THEN IF io = "readerr"
                THEN [res |-> MHD_CONTENT_READER_END_WITH_ERROR, data |-> ""]
                ELSE [res |-> MHD_CONTENT_READER_END_OF_STREAM, data |-> ""]
           ELSE [res |-> Len(data), data |-> data]

\* fclose on a handle
fclose(h) == [state |-> "closed", closes |-> h.closes + 1]

\* on_file_close without the fclose
on_file_close_noop(h) == h

\* on_file_close: closes the handle unless it is null
on_file_close(h) == IF h.state # "none" THEN fclose(h) ELSE h

(* ------------------------- directory responder ------------------------- *)

LastChar(s) == SubSeq(s, Len(s), Len(s))

\* the condition of the redirect branch of on_dir_request
NeedsRedirect(path) == Len(path) = 0 \/ LastChar(path) # "/"

\* sprintf(url, "/fs%s/", path)
RedirectUrl(path) == "/fs" \o path \o "/"

\* the formatted string and its terminator do not fit in char url[PATH_MAX]
UrlOverflows(path) == Len(RedirectUrl(path)) + 1 > PATH_MAX

\* the header on_dir_read formats in state 0
DirHeader(path) ==
  "<!DOCTYPE html><html>  <head>    <title>Index of " \o path
    \o "</title>  </head>  <body>    <h1>Index of " \o path \o "</h1>    <ul>"

\* the element on_dir_read formats for one entry
DirItem(name) ==
  "<li><a href=\"" \o name \o "\">" \o name \o "</a></li>"

DirFooter == "</ul></body></html>"

\* Hidden testing for the names . and .. only
HiddenDotAndDotDot(name) == name \in {".", ".."}

\* the test on_dir_read makes before it renders an entry
Hidden(name) == SubSeq(name, 1, 1) = "."

\* snprintf(buf, max, ...): what is left in buf, and the value returned
Snprintf(max, text) ==
  [data |-> IF Len(text) < max THEN text ELSE SubSeq(text, 1, max - 1),
   res |-> Len(text)]

\* closedir left out
closedir_noop(d) == d

\* closedir on a handle
closedir(d) == [d EXCEPT !.state = "closed", !.closes = @ + 1]

\* on_dir_close on the dir_read_sm_t it is given and the table of DIR handles:
\* closes the handle the structure names unless that is null
on_dir_close(s, tbl) ==
  IF s.dir # NULL THEN [tbl EXCEPT ![s.dir] = closedir(@)] ELSE tbl

\* a unit on_dir_read leaves in the buffer: what it is, the bytes written, the
\* length reported, the entry it renders and the DIR handle it was read from
Unit(kind, out, name, src) ==
  [kind |-> kind, data |-> out.data, len |-> out.res, name |-> name, src |-> src]

NoUnit == [kind |-> "none", data |-> "", len |-> 0, name |-> "", src |-> NULL]

\* TooSmall with the limit one byte lower
TooSmallBelowLimit(max) == max < MIN_DIR_BUF - 1

\* the test on_dir_read makes on the buffer size before anything else
TooSmall(max) == max < MIN_DIR_BUF

\* one on_dir_read call on the dir_read_sm_t s it is given, with the table of
\* DIR handles; ub chooses how readdir on a null or closed handle ends:
\* "crash", or "null" (it returns no entry)
on_dir_read(s, max, tbl, ub) ==
  LET same == [res |-> 0, unit |-> NoUnit, sm |-> s, tbl |-> tbl, crash |-> FALSE]
  IN  IF TooSmall(max)
      THEN same
      ELSE IF s.state = 0
      THEN LET out == Snprintf(max, DirHeader(s.path))
           IN  [same EXCEPT !.res = out.res, !.sm = [s EXCEPT !.state = @ + 1],
                            !.unit = Unit("header", out, "", NULL)]
      ELSE IF s.state = 1
      THEN IF s.dir = NULL \/ tbl[s.dir].state # "open"
           THEN IF ub = "crash"
                THEN [same EXCEPT !.crash = TRUE]
                ELSE [same EXCEPT !.sm = [s EXCEPT !.state = @ + 1]]
           ELSE LET d == tbl[s.dir]
                    ents == DirEntries(d.path)
                IN  IF d.pos >= Len(ents)
                    THEN [same EXCEPT !.sm = [s EXCEPT !.state = @ + 1]]
                    ELSE LET name == ents[d.pos + 1]
                             t2 == [tbl EXCEPT ![s.dir].pos = @ + 1]
                             out == Snprintf(max, DirItem(name))
                         IN  IF Hidden(name)
                             THEN [same EXCEPT !.tbl = t2]
                             ELSE [same EXCEPT !.tbl = t2, !.res = out.res,
                                     !.unit = Unit("item", out, name, s.dir)]
      ELSE IF s.state = 2
      THEN LET out == Snprintf(max, DirFooter)
           IN  [same EXCEPT !.res = out.res, !.sm = [s EXCEPT !.state = @ + 1],
                            !.unit = Unit("footer", out, "", NULL)]
      ELSE [same EXCEPT !.res = MHD_CONTENT_READER_END_OF_STREAM]

(* -------------------------- request handlers --------------------------- *)

Tri(b) == IF b THEN "ok" ELSE "fail"

\* the outcome of a handler before it has done anything
Out0 ==
  [ret |-> "MHD_NO", resp |-> NoResp, fh |-> NoHandle, dh |-> NoDir,
   smw |-> FALSE, smv |-> NoSm, crash |-> FALSE,
   open |-> "na", create |-> "na", queue |-> "na"]

\* ret = MHD_queue_response(conn, status, resp); MHD_destroy_response(resp)
Queue(o, status, r, e) ==
  IF e.queue
  THEN [o EXCEPT !.ret = "MHD_YES", !.queue = "ok",
                 !.resp = MHD_queue_response(status, r)]
  ELSE [o EXCEPT !.queue = "fail"]

\* NotFoundResponse queueing its page with status 200
NotFoundResponseOk(o, e) ==
  IF e.create
  THEN Queue([o EXCEPT !.create = "ok"], MHD_HTTP_OK,
             MHD_create_response_from_buffer(Len(PAGE_404), PAGE_404), e)
  ELSE [o EXCEPT !.create = "fail"]

\* the 404 block shared by the three handlers
NotFoundResponse(o, e) ==
  IF e.create
  THEN Queue([o EXCEPT !.create = "ok"], MHD_HTTP_NOT_FOUND,
             MHD_create_response_from_buffer(Len(PAGE_404), PAGE_404), e)
  ELSE [o EXCEPT !.create = "fail"]

\* on_file_request without the test of the FILE handle: the stream response
\* is made although nothing was opened
on_file_request_nocheck(path, e) ==
  LET o1 == [Out0 EXCEPT !.open = Tri(e.open)]
      file == IF e.open THEN [state |-> "open", closes |-> 0] ELSE NoHandle
  IN  IF e.create
      THEN LET o2 == Queue([o1 EXCEPT !.create = "ok", !.fh = file],
                           MHD_HTTP_OK,
                           MHD_create_response_from_callback(
                             Len(Content(path)), "file"), e)
           IN  IF e.queue THEN o2 ELSE [o2 EXCEPT !.fh = on_file_close(file)]
      ELSE [o1 EXCEPT !.create = "fail", !.fh = on_file_close(file)]

on_file_request(path, e) ==
  LET o1 == [Out0 EXCEPT !.open = Tri(e.open)]
      file == [state |-> "open", closes |-> 0]
  IN  IF ~e.open
      THEN NotFoundResponse(o1, e)
      ELSE IF e.create
           THEN LET o2 == Queue([o1 EXCEPT !.create = "ok", !.fh = file],
                                MHD_HTTP_OK,
                                MHD_create_response_from_callback(
                                  Len(Content(path)), "file"), e)
                IN  \* an unqueued response is freed by MHD_destroy_response,
                    \* which calls its close callback
                    IF e.queue THEN o2 ELSE [o2 EXCEPT !.fh = on_file_close(file)]
           ELSE [o1 EXCEPT !.create = "fail", !.fh = fclose(file)]

on_dir_request(r, path, e) ==
  IF NeedsRedirect(path)
  THEN IF UrlOverflows(path) /\ e.crash
       THEN [Out0 EXCEPT !.crash = TRUE]
       ELSE IF ~e.create
            THEN [Out0 EXCEPT !.create = "fail"]
            ELSE Queue([Out0 EXCEPT !.create = "ok"], MHD_HTTP_MOVED_PERMANENTLY,
                       MHD_add_response_header(
                         MHD_create_response_from_buffer(0, ""),
                         "Location", RedirectUrl(path)), e)
  ELSE IF ~e.open
       THEN NotFoundResponse([Out0 EXCEPT !.open = "fail"], e)
       ELSE LET dir == [state |-> "open", pos |-> 0, closes |-> 0, path |-> path]
                smv == [path |-> path, dir |-> r, state |-> 0]
                o1 == [Out0 EXCEPT !.open = "ok", !.dh = dir,
                                   !.smw = TRUE, !.smv = smv]
            IN  IF e.create
                THEN LET o2 == Queue([o1 EXCEPT !.create = "ok"], MHD_HTTP_OK,
                                     MHD_create_response_from_callback(
                                       MHD_SIZE_UNKNOWN, "dir"), e)
                     IN  IF e.queue
                         THEN o2
                         ELSE [o2 EXCEPT !.dh = on_dir_close(smv, r :> dir)[r]]
                ELSE [o1 EXCEPT !.create = "fail", !.dh = closedir(dir)]

\* const char* path = url+3
StripPrefix(u) == SubSeq(u, PREFIX_LEN + 1, Len(u))

\* Route without the test for the empty path
RouteNoEmptyTest(path) ==
  IF Kind(path) # "none"
  THEN IF Kind(path) = "reg"
       THEN [responder |-> "file", path |-> path]
       ELSE [responder |-> "dir", path |-> path]
  ELSE [responder |-> "notfound", path |-> path]

\* the responder fs_on_request chooses for a stripped path, and the path it
\* passes to it
Route(path) ==
  IF Len(path) = 0
  THEN [responder |-> "dir", path |-> "/"]
  ELSE IF Kind(path) # "none"
       THEN IF Kind(path) = "reg"
            THEN [responder |-> "file", path |-> path]
            ELSE [responder |-> "dir", path |-> path]
       ELSE [responder |-> "notfound", path |-> path]

fs_on_request(r, u, e) ==
  LET rt == Route(StripPrefix(u))
  IN  CASE rt.responder = "file" -> on_file_request(rt.path, e)
        [] rt.responder = "dir" -> on_dir_request(r, rt.path, e)
        [] OTHER -> NotFoundResponse(Out0, e)

(* ------------------------------ actions -------------------------------- *)

Init ==
  /\ pc = [r \in Req |-> "idle"]
  /\ fault = FALSE
  /\ url = [r \in Req |-> ""]
  /\ route = [r \in Req |-> [responder |-> "none", path |-> ""]]
  /\ obs = [r \in Req |-> [open |-> "na", create |-> "na", queue |-> "na"]]
  /\ ret = [r \in Req |-> "none"]
  /\ resp = [r \in Req |-> NoResp]
  /\ fh = [r \in Req |-> NoHandle]
  /\ fbody = [r \in Req |-> ""]
  /\ fuse = [r \in Req |-> FALSE]
  /\ dh = [r \in Req |-> NoDir]
  /\ listing = [r \in Req |-> <<>>]
  /\ sm = NoSm
  /\ own = [r \in Req |-> NoSm]
  /\ foreign = [r \in Req |-> FALSE]
  /\ endby = [r \in Req |-> "none"]
  /\ nClobber = 0

\* the HTTP layer calls fs_on_request for request r; requests are numbered in
\* the order in which they arrive
Request(r) ==
  /\ ~fault
  /\ pc[r] = "idle"
  /\ \A q \in Req : q < r => pc[q] # "idle"
  /\ \E u \in URLs, e \in Envs :
       LET o == fs_on_request(r, u, e)
       IN  /\ url' = [url EXCEPT ![r] = u]
           /\ route' = [route EXCEPT ![r] = Route(StripPrefix(u))]
           /\ fault' = o.crash
           /\ obs' = [obs EXCEPT ![r] =
                        [open |-> o.open, create |-> o.create, queue |-> o.queue]]
           /\ ret' = [ret EXCEPT ![r] = IF o.crash THEN "none" ELSE o.ret]
           /\ resp' = [resp EXCEPT ![r] = o.resp]
           /\ fh' = [fh EXCEPT ![r] = o.fh]
           /\ dh' = [dh EXCEPT ![r] = o.dh]
           /\ sm' = IF o.smw THEN o.smv ELSE sm
           /\ own' = [own EXCEPT ![r] = o.smv]
           /\ pc' = [pc EXCEPT ![r] =
                       IF o.crash THEN "crashed"
                       ELSE IF o.resp.kind \in {"file", "dir"} THEN "stream"
                       ELSE "done"]
  /\ UNCHANGED <<fbody, fuse, listing, foreign, endby, nClobber>>

\* the HTTP layer calls on_file_read for the next part of the body
FileRead(r) ==
  /\ ~fault
  /\ pc[r] = "stream"
  /\ resp[r].kind = "file"
  /\ \E max \in 1..MaxChunk, io \in {"ok", "seekfail", "readerr"} :
       LET pos == Len(fbody[r])
           rd == on_file_read(Content(route[r].path), pos, max, io)
       IN  /\ fuse' = [fuse EXCEPT ![r] = @ \/ fh[r].state # "open"]
           /\ fbody' = [fbody EXCEPT ![r] = @ \o rd.data]
           /\ IF rd.res < 0
              THEN /\ pc' = [pc EXCEPT ![r] = "ended"]
                   /\ endby' = [endby EXCEPT ![r] =
                                  IF rd.res = MHD_CONTENT_READER_END_OF_STREAM
                                  THEN "eos" ELSE "error"]
              ELSE UNCHANGED <<pc, endby>>
  /\ UNCHANGED <<fault, url, route, obs, ret, resp, fh, dh, listing, sm, own,
                 foreign, nClobber>>

\* the HTTP layer has sent as many bytes as the response declared
FileComplete(r) ==
  /\ ~fault
  /\ pc[r] = "stream"
  /\ resp[r].kind = "file"
  /\ Len(fbody[r]) = resp[r].size
  /\ pc' = [pc EXCEPT ![r] = "ended"]
  /\ endby' = [endby EXCEPT ![r] = "complete"]
  /\ UNCHANGED <<fault, url, route, obs, ret, resp, fh, fbody, fuse, dh, listing,
                 sm, own, foreign, nClobber>>

\* the HTTP layer gives up a response in mid-stream (the client went away)
Abort(r) ==
  /\ ~fault
  /\ pc[r] = "stream"
  /\ pc' = [pc EXCEPT ![r] = "ended"]
  /\ endby' = [endby EXCEPT ![r] = "abort"]
  /\ UNCHANGED <<fault, url, route, obs, ret, resp, fh, fbody, fuse, dh, listing,
                 sm, own, foreign, nClobber>>

\* the HTTP layer frees a finished file response: on_file_close
FileClose(r) ==
  /\ ~fault
  /\ pc[r] = "ended"
  /\ resp[r].kind = "file"
  /\ fh' = [fh EXCEPT ![r] = on_file_close(@)]
  /\ pc' = [pc EXCEPT ![r] = "done"]
  /\ UNCHANGED <<fault, url, route, obs, ret, resp, fbody, fuse, dh, listing,
                 sm, own, foreign, endby, nClobber>>

\* the buffer sizes the HTTP layer offers on_dir_read
DirMax == {MIN_DIR_BUF - 1, MIN_DIR_BUF, 32 * PAGE_SIZE}

\* the HTTP layer calls on_dir_read for the next part of the listing; the
\* callback's argument is the address of the dir_read_sm_t in the frame of
\* on_dir_request, which has returned
DirRead(r) ==
  /\ ~fault
  /\ pc[r] = "stream"
  /\ resp[r].kind = "dir"
  /\ \E max \in DirMax, ub \in {"crash", "null"} :
       LET rd == on_dir_read(sm, max, dh, ub)
       IN  /\ fault' = rd.crash
           /\ sm' = rd.sm
           /\ dh' = rd.tbl
           /\ listing' = [listing EXCEPT ![r] =
                            IF rd.unit.kind = "none" THEN @ ELSE Append(@, rd.unit)]
           /\ foreign' = [foreign EXCEPT ![r] = @ \/ sm # own[r]]
           /\ own' = [own EXCEPT ![r] = IF sm = @ THEN rd.sm ELSE @]
           /\ IF rd.res = MHD_CONTENT_READER_END_OF_STREAM
              THEN /\ pc' = [pc EXCEPT ![r] = "ended"]
                   /\ endby' = [endby EXCEPT ![r] = "eos"]
              ELSE UNCHANGED <<pc, endby>>
  /\ UNCHANGED <<url, route, obs, ret, resp, fh, fbody, fuse, nClobber>>

\* the HTTP layer frees a finished directory response: on_dir_close, on the
\* same address; ub chooses how closedir on a handle that is not open ends
DirClose(r) ==
  /\ ~fault
  /\ pc[r] = "ended"
  /\ resp[r].kind = "dir"
  /\ \E ub \in {"crash", "benign"} :
       IF sm.dir # NULL /\ dh[sm.dir].state # "open" /\ ub = "crash"
       THEN /\ fault' = TRUE
            /\ UNCHANGED <<dh, pc>>
       ELSE /\ dh' = on_dir_close(sm, dh)
            /\ pc' = [pc EXCEPT ![r] = "done"]
            /\ UNCHANGED fault
  /\ foreign' = [foreign EXCEPT ![r] = @ \/ sm # own[r]]
  /\ UNCHANGED <<url, route, obs, ret, resp, fh, fbody, fuse, listing, sm, own,
                 endby, nClobber>>

\* values the stack memory of the returned frame can be left with by other
\* calls: zeroed, or a state field outside the four phases (the values another
\* on_dir_request leaves there come from Request itself)
SmValues == [path : {""}, dir : {NULL}, state : {0, 3}]

\* a directory response whose callbacks have not all run
LiveDir(r) == pc[r] \in {"stream", "ended"} /\ resp[r].kind = "dir"

\* another call on the same thread reuses the stack memory in which the
\* returned on_dir_request kept its dir_read_sm_t
StackReuse ==
  /\ ~fault
  /\ nClobber < MaxClobber
  /\ \E r \in Req : LiveDir(r)
  /\ \E v \in SmValues : sm' = v
  /\ nClobber' = nClobber + 1
  /\ UNCHANGED <<pc, fault, url, route, obs, ret, resp, fh, fbody, fuse, dh,
                 listing, own, foreign, endby>>

Next ==
  \/ \E r \in Req : Request(r)
  \/ \E r \in Req : FileRead(r)
  \/ \E r \in Req : FileComplete(r)
  \/ \E r \in Req : Abort(r)
  \/ \E r \in Req : FileClose(r)
  \/ \E r \in Req : DirRead(r)
  \/ \E r \in Req : DirClose(r)
  \/ StackReuse

Spec == Init /\ [][Next]_vars

(* ------------------------------ claims --------------------------------- *)

Handled(r) == pc[r] # "idle"
ReqPath(r) == StripPrefix(url[r])
EnvOk(r) == obs[r].open # "fail" /\ obs[r].create = "ok" /\ obs[r].queue = "ok"
IsPrefix(s, t) == Len(s) <= Len(t) /\ s = SubSeq(t, 1, Len(s))
FileStream(r) == route[r].responder = "file" /\ resp[r].kind = "file"

\* C1: a regular file that could be opened and whose response was queued is
\* answered with status 200; whatever chunk sizes the HTTP layer used, the
\* bytes handed over so far are a prefix of the file, and when the stream ends
\* (end-of-stream returned, or the declared length reached) they are the whole
\* file, byte for byte.
C1_FileBodyIsFileContent ==
  \A r \in Req :
    (Handled(r) /\ Kind(ReqPath(r)) = "reg" /\ EnvOk(r)) =>
      /\ resp[r].status = MHD_HTTP_OK
      /\ resp[r].kind = "file"
      /\ IsPrefix(fbody[r], Content(ReqPath(r)))
      /\ endby[r] \in {"eos", "complete"} => fbody[r] = Content(ReqPath(r))

C1_Witness ==
  \E r \in Req :
    /\ url[r] = "/fs/d/f"
    /\ resp[r].status = MHD_HTTP_OK
    /\ endby[r] = "eos"
    /\ fbody[r] = "abc"

AllowOrigin(hdrs) ==
  Cardinality({i \in DOMAIN hdrs : hdrs[i] = <<"Access-Control-Allow-Origin", "*">>})

\* C2: every response the filesystem handler queues (200 file, 200 listing,
\* 301, 404) carries Access-Control-Allow-Origin: * exactly once.
C2_EveryResponseAllowsAnyOrigin ==
  \A r \in Req : ret[r] = "MHD_YES" => AllowOrigin(resp[r].hdrs) = 1

\* the entry names of the <li> units of a listing, in order
RECURSIVE ItemNames(_)
ItemNames(units) ==
  IF units = <<>> THEN <<>>
  ELSE IF Head(units).kind = "item"
       THEN <<Head(units).name>> \o ItemNames(Tail(units))
       ELSE ItemNames(Tail(units))

NotDotOrDotDot(name) == name \notin {".", ".."}
Visible(name) == SubSeq(name, 1, 1) # "."

\* a directory stream that ran to end-of-stream while every callback of every
\* request saw the dir_read_sm_t of its own request, with no unit cut short
CleanListing(r) ==
  /\ resp[r].kind = "dir"
  /\ endby[r] = "eos"
  /\ \A q \in Req : ~foreign[q]
  /\ \A i \in DOMAIN listing[r] : listing[r][i].len = Len(listing[r][i].data)

ItemsOf(d, name) ==
  UNION {{<<r, i>> : i \in {j \in DOMAIN listing[r] :
                              /\ listing[r][j].kind = "item"
                              /\ listing[r][j].src = d
                              /\ listing[r][j].name = name}} : r \in Req}

DirOpened(r) == route[r].responder = "dir" /\ obs[r].open = "ok"

\* C4: a directory handle that was opened is closed exactly once however the
\* response ends: never twice, and once the response is done, once.
C4_DirHandleClosedOnce ==
  \A r \in Req :
    DirOpened(r) =>
      /\ dh[r].closes <= 1
      /\ pc[r] = "done" => dh[r].closes = 1

FileOpened(r) == route[r].responder = "file" /\ obs[r].open = "ok"

\* C5: a file handle that was opened is closed exactly once however the
\* response ends (end-of-stream, seek or read error, abort, response object
\* not created, response not queued); it is open as long as the stream can
\* be read, and on_file_read is never called on it once it is closed.
C5_FileHandleClosedOnce ==
  \A r \in Req :
    /\ ~fuse[r]
    /\ FileOpened(r) =>
         /\ fh[r].closes <= 1
         /\ pc[r] \in {"stream", "ended"} => fh[r].state = "open"
         /\ pc[r] = "done" => fh[r] = [state |-> "closed", closes |-> 1]
    /\ (Handled(r) /\ ~FileOpened(r)) => fh[r] = NoHandle

C5_Witness ==
  \E r \in Req :
    /\ FileOpened(r)
    /\ pc[r] = "done"
    /\ endby[r] = "error"
    /\ fh[r].closes = 1

\* C6: the read and close callbacks of a directory response always see the
\* dir_read_sm_t that on_dir_request initialised for their own request, as
\* their own earlier calls left it.
C6_CallbacksSeeOwnState ==
  \A r \in Req : ~foreign[r]

RedirectCase(r) ==
  /\ Handled(r)
  /\ Kind(ReqPath(r)) \in {"dir", "other"}
  /\ LastChar(ReqPath(r)) # "/"

\* C7: an existing non-regular path without a trailing '/' is answered, when
\* the response object can be made and queued, with a 301 whose Location is
\* "/fs", the path and one '/', and an empty body; a path that ends with '/'
\* is never redirected.
C7_RedirectAddsOneSlash ==
  \A r \in Req :
    /\ (RedirectCase(r) /\ obs[r].create # "fail" /\ obs[r].queue # "fail") =>
         /\ ret[r] = "MHD_YES"
         /\ resp[r].status = MHD_HTTP_MOVED_PERMANENTLY
         /\ resp[r].hdrs = << <<"Location", "/fs" \o ReqPath(r) \o "/">> >>
         /\ resp[r].kind = "buffer"
         /\ resp[r].data = ""
    /\ (Handled(r) /\ ~RedirectCase(r)) =>
         resp[r].status # MHD_HTTP_MOVED_PERMANENTLY

StatFails(r) == Handled(r) /\ Len(ReqPath(r)) > 0 /\ Kind(ReqPath(r)) = "none"

\* C8: a non-empty path for which stat fails opens no file and no directory
\* and installs no stream callback; the response, when it can be made and
\* queued, is 404 with the fixed body, and otherwise none is queued.
C8_StatFailureIsNotFound ==
  \A r \in Req :
    StatFails(r) =>
      /\ fh[r] = NoHandle
      /\ dh[r] = NoDir
      /\ obs[r].open = "na"
      /\ pc[r] = "done"
      /\ resp[r].kind \in {"buffer", "none"}
      /\ IF EnvOk(r)
         THEN /\ ret[r] = "MHD_YES"
              /\ resp[r].status = MHD_HTTP_NOT_FOUND
              /\ resp[r].data = PAGE_404
              /\ resp[r].size = Len(PAGE_404)
         ELSE ret[r] = "MHD_NO" /\ resp[r] = NoResp

C8_Witness ==
  \E r \in Req :
    /\ url[r] = "/fs/x"
    /\ ret[r] = "MHD_YES"
    /\ resp[r].status = MHD_HTTP_NOT_FOUND

\* C9: a file response declares the file's size N; the bytes handed over never
\* exceed N; on_file_read returns end-of-stream exactly at offset N, for
\* every buffer size, so a stream that ended with end-of-stream delivered
\* exactly N bytes.
C9_FileStreamEndsAtDeclaredLength ==
  \A r \in Req :
    FileStream(r) =>
      LET N == Len(Content(route[r].path))
          pos == Len(fbody[r])
      IN  /\ resp[r].size = N
          /\ pos <= N
          /\ endby[r] = "eos" => pos = N
          /\ \A max \in 1..MaxChunk :
               LET rd == on_file_read(Content(route[r].path), pos, max, "ok")
               IN  /\ (rd.res = MHD_CONTENT_READER_END_OF_STREAM) <=> (pos = N)
                   /\ pos < N => rd.res \in 1..max

C9_Witness ==
  \E r \in Req :
    /\ FileStream(r)
    /\ resp[r].size = 3
    /\ endby[r] = "eos"
    /\ Len(fbody[r]) = 3

\* C10: the router chooses one responder per request from the stat result of
\* the stripped path alone: the empty path is served as a listing of "/", a
\* regular file by the file responder, any other existing path by the
\* directory responder, and a path whose stat fails gets the 404 response.
C10_RouterChoosesByStat ==
  \A r \in Req :
    Handled(r) =>
      LET p == ReqPath(r)
          k == Kind(p)
      IN  /\ ~(fh[r].state # "none" /\ dh[r].state # "none")
          /\ Len(p) = 0 =>
               /\ route[r] = [responder |-> "dir", path |-> "/"]
               /\ fh[r] = NoHandle
               /\ EnvOk(r) => resp[r].kind = "dir" /\ own[r].path = "/"
          /\ (Len(p) > 0 /\ k = "reg") =>
               /\ route[r] = [responder |-> "file", path |-> p]
               /\ dh[r] = NoDir
               /\ EnvOk(r) => resp[r].kind = "file"
          /\ (Len(p) > 0 /\ k \in {"dir", "other"}) =>
               /\ route[r] = [responder |-> "dir", path |-> p]
               /\ fh[r] = NoHandle
               /\ (EnvOk(r) /\ obs[r].open = "ok") => resp[r].kind = "dir"
               /\ (EnvOk(r) /\ obs[r].open = "na") =>
                    resp[r].status = MHD_HTTP_MOVED_PERMANENTLY
          /\ (Len(p) > 0 /\ k = "none") =>
               /\ route[r] = [responder |-> "notfound", path |-> p]
               /\ fh[r] = NoHandle /\ dh[r] = NoDir
               /\ resp[r].status \in {0, MHD_HTTP_NOT_FOUND}

C10_Witness ==
  \E r \in Req :
    /\ url[r] = "/fs"
    /\ pc[r] = "stream"
    /\ resp[r].kind = "dir"
    /\ own[r].path = "/"

\* the bytes a directory response carries: those of its units, in order
RECURSIVE BodyOf(_)
BodyOf(units) ==
  IF units = <<>> THEN "" ELSE Head(units).data \o BodyOf(Tail(units))

\* a response that was queued and, when it is a stream, ran to its end
Finished(r) ==
  /\ Handled(r)
  /\ EnvOk(r)
  /\ pc[r] # "crashed"
  /\ resp[r].kind \in {"file", "dir"} => endby[r] \in {"eos", "complete"}

\* C11: while the file system does not change, two finished requests for the
\* same URL have the same response: the same status, the same headers and the
\* same body bytes, whatever buffer sizes the HTTP layer offered and whatever
\* other requests ran in between.
C11_SameRequestSameResponse ==
  \A p, q \in Req :
    (url[p] = url[q] /\ Finished(p) /\ Finished(q)) =>
      /\ resp[p].status = resp[q].status
      /\ resp[p].hdrs = resp[q].hdrs
      /\ resp[p].data = resp[q].data
      /\ fbody[p] = fbody[q]
      /\ BodyOf(listing[p]) = BodyOf(listing[q])

\* the kinds of the units of a listing, in order
UnitKinds(units) == [i \in DOMAIN units |-> units[i].kind]

\* header, then <li> units only, then at most one footer at the very end
WellFormedKinds(ks) ==
  \A i \in DOMAIN ks :
    /\ ks[i] = "header" <=> i = 1
    /\ ks[i] = "footer" => i = Len(ks)

\* C12: in the stream of one directory the header is emitted exactly once and
\* before any entry, the entries follow in enumeration order, the footer is
\* emitted exactly once and after the last entry, and end-of-stream is
\* signalled only after all of that: the phase went Header, Entries, Footer,
\* Done one step at a time and never back.
C12_PhasesOnlyForward ==
  \A r \in Req :
    (DirOpened(r) /\ resp[r].kind = "dir") =>
      /\ WellFormedKinds(UnitKinds(listing[r]))
      /\ IsPrefix(ItemNames(listing[r]),
                  SelectSeq(DirEntries(route[r].path), Visible))
      /\ endby[r] = "eos" =>
           /\ Len(listing[r]) >= 2
           /\ listing[r][Len(listing[r])].kind = "footer"
           /\ ItemNames(listing[r]) = SelectSeq(DirEntries(route[r].path), Visible)

\* the buffer sizes at which on_dir_read does its work
BigMax == {max \in DirMax : max >= MIN_DIR_BUF}

\* the dir_read_sm_t is in the Entries phase and names an open DIR handle
InEntries == sm.state = 1 /\ sm.dir # NULL /\ dh[sm.dir].state = "open"

\* C13: in the Entries phase a call of on_dir_read with max >= 512 consumes
\* exactly one entry of the directory: when there is none it returns 0 and the
\* phase becomes Footer; when the name begins with '.' it returns 0 and stays
\* in Entries; otherwise it leaves exactly one whole <li> element for that
\* entry in the buffer, returns its length and stays in Entries.
C13_OneEntryPerCall ==
  InEntries =>
    \A max \in BigMax, ub \in {"crash", "null"} :
      LET rd == on_dir_read(sm, max, dh, ub)
          d == dh[sm.dir]
          ents == DirEntries(d.path)
      IN  /\ ~rd.crash
          /\ IF d.pos >= Len(ents)
             THEN /\ rd.res = 0 /\ rd.unit = NoUnit
                  /\ rd.sm.state = 2
                  /\ rd.tbl = dh
             ELSE /\ rd.tbl = [dh EXCEPT ![sm.dir].pos = d.pos + 1]
                  /\ rd.sm = sm
                  /\ IF SubSeq(ents[d.pos + 1], 1, 1) = "."
                     THEN rd.res = 0 /\ rd.unit = NoUnit
                     ELSE /\ rd.unit.data = DirItem(ents[d.pos + 1])
                          /\ rd.res = Len(rd.unit.data)

\* C14: a call of on_dir_read with max < 512 returns 0, not end-of-stream, in
\* every phase, Done included, and changes nothing: the phase is the same, no
\* entry is consumed, nothing is written.
C14_SmallBufferNoProgress ==
  (\E r \in Req : LiveDir(r)) =>
    \A max \in DirMax \ BigMax, ub \in {"crash", "null"} :
      LET rd == on_dir_read(sm, max, dh, ub)
      IN  /\ rd.res = 0
          /\ rd.sm = sm
          /\ rd.tbl = dh
          /\ rd.unit = NoUnit
          /\ ~rd.crash

\* a stream that reached the Done phase by its own calls and is offered a
\* buffer of 511 bytes: 0 is returned, where 512 bytes give end-of-stream
C14_Witness ==
  \E r \in Req :
    /\ pc[r] = "stream" /\ resp[r].kind = "dir"
    /\ ~foreign[r] /\ sm = own[r]
    /\ sm.state = 3
    /\ listing[r][Len(listing[r])].kind = "footer"
    /\ on_dir_read(sm, MIN_DIR_BUF - 1, dh, "null").res = 0
    /\ on_dir_read(sm, MIN_DIR_BUF, dh, "null").res =
         MHD_CONTENT_READER_END_OF_STREAM

\* the router's stat found a regular file, and the responder could not open it
OpenFailsAfterStat(r) ==
  /\ Handled(r)
  /\ route[r].responder = "file"
  /\ Kind(ReqPath(r)) = "reg"
  /\ obs[r].open = "fail"

\* C15: when the file the router's stat found cannot be opened by the
\* responder any more, the request is answered like a missing path: status
\* 404 with the fixed page when the response object can be made and queued,
\* and in every case no file handle is left open and no stream callback is
\* installed.
C15_OpenFailureIsNotFound ==
  \A r \in Req :
    OpenFailsAfterStat(r) =>
      /\ pc[r] = "done"
      /\ fh[r] = NoHandle
      /\ resp[r].kind \in {"none", "buffer"}
      /\ fbody[r] = ""
      /\ (obs[r].create = "ok" /\ obs[r].queue = "ok") =>
           /\ ret[r] = "MHD_YES"
           /\ resp[r].status = MHD_HTTP_NOT_FOUND
           /\ resp[r].data = PAGE_404
           /\ resp[r].size = Len(PAGE_404)
      /\ (obs[r].create # "ok" \/ obs[r].queue # "ok") =>
           ret[r] = "MHD_NO" /\ resp[r] = NoResp

C15_Witness ==
  \E r \in Req :
    /\ url[r] = "/fs/d/f"
    /\ OpenFailsAfterStat(r)
    /\ resp[r].status = MHD_HTTP_NOT_FOUND
    /\ resp[r].data = PAGE_404

\* what fread will return at offset pos of a file for a buffer of max bytes
ReadLen(content, pos, max) ==
  IF Len(content) - pos < max THEN Len(content) - pos ELSE max

\* C16: every on_file_read call ends in exactly one of three ways: with the
\* fatal-error value if and only if the seek fails or the read returns 0 with
\* the error flag set; with end-of-stream if and only if the seek succeeds and
\* the read returns 0 without error; otherwise with the number of bytes read,
\* which is between 1 and max.
C16_FileReadOutcomes ==
  \A r \in Req :
    (FileStream(r) /\ pc[r] = "stream") =>
      \A max \in 1..MaxChunk, io \in {"ok", "seekfail", "readerr"} :
        LET content == Content(route[r].path)
            pos == Len(fbody[r])
            rd == on_file_read(content, pos, max, io)
        IN  /\ rd.res = MHD_CONTENT_READER_END_WITH_ERROR
                 <=> io \in {"seekfail", "readerr"}
            /\ rd.res = MHD_CONTENT_READER_END_OF_STREAM
                 <=> (io = "ok" /\ ReadLen(content, pos, max) = 0)
            /\ rd.res \notin {MHD_CONTENT_READER_END_WITH_ERROR,
                              MHD_CONTENT_READER_END_OF_STREAM} =>
                 /\ rd.res \in 1..max
                 /\ rd.res = ReadLen(content, pos, max)
                 /\ rd.res = Len(rd.data)
            /\ rd.res < 0 => rd.data = ""

\* a stream read partly, whose next call can end in each of the three ways,
\* and a stream a call ended with the fatal-error value
C16_Witness ==
  /\ \E r \in Req :
       /\ FileStream(r) /\ pc[r] = "stream"
       /\ Len(fbody[r]) = 2
       /\ on_file_read(Content(route[r].path), 2, MaxChunk, "ok").res = 1
  /\ \E r \in Req :
       FileStream(r) /\ endby[r] = "error" /\ Len(fbody[r]) = 3

\* C17: when the response object cannot be made, on the 404, the redirect,
\* the file and the directory path alike, the handler returns failure, no
\* response is queued and no callback is installed, and the file or directory
\* handle it had opened is closed.
C17_NoResponseObject ==
  \A r \in Req :
    obs[r].create = "fail" =>
      /\ ret[r] = "MHD_NO"
      /\ resp[r] = NoResp
      /\ pc[r] = "done"
      /\ (route[r].responder = "file" /\ obs[r].open = "ok") =>
           fh[r] = [state |-> "closed", closes |-> 1]
      /\ (route[r].responder = "dir" /\ obs[r].open = "ok") =>
           dh[r].state = "closed" /\ dh[r].closes >= 1
      /\ obs[r].open # "ok" => fh[r] = NoHandle /\ dh[r] = NoDir

\* the response object could not be made on each of the four paths
C17_Witness ==
  /\ \E r \in Req : obs[r].create = "fail" /\ route[r].responder = "notfound"
  /\ \E r \in Req :
       /\ obs[r].create = "fail" /\ route[r].responder = "dir"
       /\ obs[r].open = "ok" /\ dh[r].closes = 1

\* C18: in every phase, for every path and entry name, a call of on_dir_read
\* with max >= 512 that emits data returns at most max, so that the unit is
\* whole in the buffer and the length reported is the length written; and so
\* is every unit emitted so far.
C18_ReportedLengthFits ==
  /\ \A r \in Req : \A i \in DOMAIN listing[r] :
       listing[r][i].len = Len(listing[r][i].data)
  /\ (\E r \in Req : pc[r] = "stream" /\ resp[r].kind = "dir") =>
       \A max \in BigMax :
         LET rd == on_dir_read(sm, max, dh, "null")
         IN  rd.res > 0 => rd.res <= max /\ rd.res = Len(rd.unit.data)

\* C19: a directory stream called with max >= 512 always comes to its end:
\* every such call advances it (the phase moves on, an entry is consumed, or
\* end-of-stream is signalled; none returns 0 with nothing changed), and
\* end-of-stream is signalled after exactly n + 3 advancing calls, n being
\* the number of entries: three phase steps and one call per entry.
C19_StreamReachesDone ==
  \A r \in Req :
    (DirOpened(r) /\ resp[r].kind = "dir") =>
      /\ pc[r] = "stream" =>
           \A max \in BigMax, ub \in {"crash", "null"} :
             LET rd == on_dir_read(sm, max, dh, ub)
             IN  /\ ~rd.crash
                 /\ \/ rd.res = MHD_CONTENT_READER_END_OF_STREAM
                    \/ rd.sm.state = sm.state + 1
                    \/ rd.tbl # dh
      /\ endby[r] = "eos" =>
           own[r].state + dh[r].pos = Len(DirEntries(route[r].path)) + 3

\* C20: for every path that takes the redirect branch (stat succeeded, no
\* trailing '/'), "/fs", the path and "/" fit with their terminator in the
\* url buffer of PATH_MAX bytes, and the handler returns.
C20_RedirectUrlFits ==
  \A r \in Req :
    RedirectCase(r) =>
      /\ Len(RedirectUrl(ReqPath(r))) <= PATH_MAX - 1
      /\ pc[r] # "crashed"

====
